---- MODULE Spec2Model ----
(***************************************************************************)
(* Model of the recursive-descent parser of src/src/parse.rs.              *)
(*                                                                         *)
(* The token stream is the input; parse() is modelled as a state machine   *)
(* with one step per iteration of its top-level loop.  The helper parsers  *)
(* are pure functions and are modelled as operators that compute what the  *)
(* Rust code computes, including the diagnostics it prints and the slice   *)
(* index panics of `tokens[i]` with i >= tokens.len().                     *)
(*                                                                         *)
(* Indices are 0-based as in the source: token i of the source is          *)
(* tokens[i + 1] here, see At.                                             *)
(***************************************************************************)
EXTENDS Integers, Sequences, FiniteSets, TLC

\* Largest number of fragments an input token stream is assembled from.
MaxFrags == 4

----------------------------------------------------------------------------
(* Tokens (crate::lex::Token): kind, value and source location.            *)

Tok(kind, value) == [kind |-> kind, value |-> value]

IdA    == Tok("Identifier", "a")
IdF    == Tok("Identifier", "f")
Num1   == Tok("Number", "1")
Plus   == Tok("Operator", "+")
LParen == Tok("Syntax", "(")
RParen == Tok("Syntax", ")")
Comma  == Tok("Syntax", ",")
Semi   == Tok("Syntax", ";")
KwEnd  == Tok("Keyword", "end")

\* Input streams are concatenations of these fragments: single tokens of
\* every kind, and a few phrases so that nested calls fit in MaxFrags
\* fragments.
Frags ==
    { <<IdA>>, <<Plus>>, <<RParen>>, <<Semi>>, <<KwEnd>>,
      <<IdF, LParen>>, <<IdF, LParen, Comma>>, <<IdA, Plus, Num1>>,
      <<RParen, Semi>>, <<Comma, Num1>>, <<Plus, Num1>> }

RECURSIVE Flatten(_)
Flatten(fs) == IF fs = <<>> THEN <<>> ELSE Head(fs) \o Flatten(Tail(fs))

\* The lexer gives the i-th token the i-th source location.
Locate(ts) ==
    [i \in 1..Len(ts) |-> [kind |-> ts[i].kind, value |-> ts[i].value, loc |-> i - 1]]

Inputs ==
    { Locate(Flatten(fs)) : fs \in UNION { [1..n -> Frags] : n \in 0..MaxFrags } }

At(tokens, i) == tokens[i + 1]

----------------------------------------------------------------------------
(* Results of the Option-returning parsers.  A panic unwinds through every *)
(* caller, so it is a third outcome next to Some and None.  `out` is what  *)
(* the call printed to stdout.                                             *)

Some(node, next, out) == [tag |-> "Some", node |-> node, next |-> next, out |-> out]
None(out)             == [tag |-> "None", out |-> out]
Panic(at, out)        == [tag |-> "Panic", at |-> at, out |-> out]

Diag(msg, loc) == [msg |-> msg, loc |-> loc]

ExpectedSemicolon == "Expected semicolon after expression:"
ExpectedComma     == "Expected comma between function call arguments:"
ExpectedArgument  == "Expected valid expression in function call arguments:"
ExpectedOperand   == "Expected valid right hand side binary operand:"
InvalidToken      == "Invalid token while parsing:"

\* The AST nodes.
LiteralNode(t) == [type |-> "Literal", lit |-> t.kind, token |-> t]
FunctionCallNode(name, arguments) ==
    [type |-> "FunctionCall", name |-> name, arguments |-> arguments]
BinaryOperationNode(op, left, right) ==
    [type |-> "BinaryOperation", operator |-> op, left |-> left, right |-> right]
ExpressionStatement(expr) == [type |-> "Expression", expr |-> expr]

----------------------------------------------------------------------------
(* Lookahead utilities.                                                    *)

expect_keyword(tokens, index, value) ==
    IF index >= Len(tokens) THEN FALSE
    ELSE At(tokens, index).kind = "Keyword" /\ At(tokens, index).value = value

expect_syntax(tokens, index, value) ==
    IF index >= Len(tokens) THEN FALSE
    ELSE At(tokens, index).kind = "Syntax" /\ At(tokens, index).value = value

expect_identifier(tokens, index) ==
    IF index >= Len(tokens) THEN FALSE
    ELSE At(tokens, index).kind = "Identifier"

\* println!("{}", tokens[i].loc.debug(raw, msg)); return None;
\* the index expression panics before anything is printed when i is out of
\* range.
print_none(tokens, i, msg, out) ==
    IF i >= Len(tokens) THEN Panic(i, out)
    ELSE None(Append(out, Diag(msg, At(tokens, i).loc)))

----------------------------------------------------------------------------
(* Expression parser.                                                      *)

RECURSIVE parse_expression(_, _)
RECURSIVE parse_arguments(_, _, _, _)

\* Variant: the conventional rule, a comma before every argument but the
\* first.
comma_expected_between(arguments) == arguments # <<>>

\* if arguments.is_empty() { expect a comma }
comma_expected(arguments) == arguments = <<>>

\* The `while !expect_syntax(tokens, next_index, ")")` loop; yields the
\* collected arguments and the index of the closing paren.
parse_arguments(tokens, next_index, arguments, out) ==
    IF expect_syntax(tokens, next_index, ")")
    THEN Some(arguments, next_index, out)
    ELSE IF comma_expected(arguments) /\ ~expect_syntax(tokens, next_index, ",")
    THEN print_none(tokens, next_index, ExpectedComma, out)
    ELSE LET arg_index == IF comma_expected(arguments) THEN next_index + 1
                          ELSE next_index
             res == parse_expression(tokens, arg_index)
         IN  IF res.tag = "Some"
             THEN parse_arguments(tokens, res.next, Append(arguments, res.node),
                                  out \o res.out)
             ELSE IF res.tag = "Panic"
             THEN Panic(res.at, out \o res.out)
             ELSE print_none(tokens, arg_index, ExpectedArgument, out \o res.out)

\* Variant: the index is moved two past the closing paren.
function_call_skips_two(tokens, index, next_index) ==
    LET args == parse_arguments(tokens, next_index + 1, <<>>, <<>>)
    IN  IF args.tag = "Some"
        THEN Some(FunctionCallNode(At(tokens, index), args.node), args.next + 2,
                  args.out)
        ELSE args

\* Variant: the call does not return at its closing paren but becomes the
\* left operand of a following operator.
function_call_as_operand(tokens, index, next_index) ==
    LET args == parse_arguments(tokens, next_index + 1, <<>>, <<>>)
        call == FunctionCallNode(At(tokens, index), args.node)
        after == args.next + 1
    IN  IF args.tag # "Some" THEN args
        ELSE IF after + 1 < Len(tokens)
                /\ At(tokens, after).kind = "Operator"
                /\ At(tokens, after + 1).kind \in {"Number", "Identifier"}
        THEN Some(BinaryOperationNode(At(tokens, after), call,
                                      LiteralNode(At(tokens, after + 1))),
                  after + 2, args.out)
        ELSE Some(call, after, args.out)

\* The function-call branch, entered with next_index at the open paren.
function_call(tokens, index, next_index) ==
    LET args == parse_arguments(tokens, next_index + 1, <<>>, <<>>)
    IN  IF args.tag = "Some"
        THEN Some(FunctionCallNode(At(tokens, index), args.node), args.next + 1,
                  args.out)
        ELSE args

\* Variant: left and right operand are exchanged.
binary_operation_swapped(tokens, left, next_index) ==
    IF next_index >= Len(tokens) \/ At(tokens, next_index).kind # "Operator"
    THEN Some(left, next_index, <<>>)
    ELSE LET op == At(tokens, next_index)
             rhs_index == next_index + 1
         IN  IF rhs_index >= Len(tokens)
             THEN print_none(tokens, rhs_index, ExpectedOperand, <<>>)
             ELSE LET rtoken == At(tokens, rhs_index)
                  IN  IF rtoken.kind \in {"Number", "Identifier"}
                      THEN Some(BinaryOperationNode(op, LiteralNode(rtoken), left),
                                rhs_index + 1, <<>>)
                      ELSE None(<<Diag(ExpectedOperand, rtoken.loc)>>)

\* Variant: the right operand is parsed as an expression of its own.
binary_operation_recursive(tokens, left, next_index) ==
    IF next_index >= Len(tokens) \/ At(tokens, next_index).kind # "Operator"
    THEN Some(left, next_index, <<>>)
    ELSE LET op == At(tokens, next_index)
             rhs_index == next_index + 1
             rhs == parse_expression(tokens, rhs_index)
         IN  IF rhs.tag = "Some"
             THEN Some(BinaryOperationNode(op, left, rhs.node), rhs.next, rhs.out)
             ELSE IF rhs.tag = "Panic" THEN rhs
             ELSE print_none(tokens, rhs_index, ExpectedOperand, rhs.out)

\* The literal / binary-operation tail, entered with next_index just past
\* the left literal.
binary_operation(tokens, left, next_index) ==
    IF next_index >= Len(tokens) \/ At(tokens, next_index).kind # "Operator"
    THEN Some(left, next_index, <<>>)
    ELSE LET op == At(tokens, next_index)
             rhs_index == next_index + 1
         IN  IF rhs_index >= Len(tokens)
             THEN print_none(tokens, rhs_index, ExpectedOperand, <<>>)
             ELSE LET rtoken == At(tokens, rhs_index)
                  IN  IF rtoken.kind \in {"Number", "Identifier"}
                      THEN Some(BinaryOperationNode(op, left, LiteralNode(rtoken)),
                                rhs_index + 1, <<>>)
                      ELSE None(<<Diag(ExpectedOperand, rtoken.loc)>>)

parse_expression(tokens, index) ==
    IF index >= Len(tokens) THEN None(<<>>)
    ELSE LET t == At(tokens, index)
         IN  IF t.kind \notin {"Number", "Identifier"} THEN None(<<>>)
             ELSE IF expect_syntax(tokens, index + 1, "(")
             THEN function_call(tokens, index, index + 1)
             ELSE binary_operation(tokens, LiteralNode(t), index + 1)

----------------------------------------------------------------------------
(* Statement forms and the dispatcher.                                     *)

parse_expression_statement(tokens, index) ==
    LET res == parse_expression(tokens, index)
    IN  IF res.tag # "Some" THEN res
        ELSE IF ~expect_syntax(tokens, res.next, ";")
        THEN print_none(tokens, res.next, ExpectedSemicolon, res.out)
        ELSE Some(ExpressionStatement(res.node), res.next + 1, res.out)

\* The keyword-led forms: no match when the leading keyword is absent.  What
\* they do after a leading match is not modelled; the inputs hold none of
\* these keywords.
Committed(form) == [tag |-> "Committed", form |-> form, out |-> <<>>]

parse_if(tokens, index) ==
    IF expect_keyword(tokens, index, "if") THEN Committed("if") ELSE None(<<>>)

parse_return(tokens, index) ==
    IF expect_keyword(tokens, index, "return") THEN Committed("return") ELSE None(<<>>)

parse_function(tokens, index) ==
    IF expect_keyword(tokens, index, "function") THEN Committed("function")
    ELSE None(<<>>)

parse_local(tokens, index) ==
    IF expect_keyword(tokens, index, "local") THEN Committed("local") ELSE None(<<>>)

\* Tries the parsers in order; the first result that is not None wins (a
\* panic ends the search as well).  Diagnostics of the failed trials stay
\* printed.
parse_statement(tokens, index) ==
    LET r1 == parse_if(tokens, index)
        r2 == parse_expression_statement(tokens, index)
        r3 == parse_return(tokens, index)
        r4 == parse_function(tokens, index)
        r5 == parse_local(tokens, index)
        With(r, out) == [r EXCEPT !.out = out \o r.out]
    IN  IF r1.tag # "None" THEN r1
        ELSE IF r2.tag # "None" THEN With(r2, r1.out)
        ELSE IF r3.tag # "None" THEN With(r3, r1.out \o r2.out)
        ELSE IF r4.tag # "None" THEN With(r4, r1.out \o r2.out \o r3.out)
        ELSE With(r5, r1.out \o r2.out \o r3.out \o r4.out)

----------------------------------------------------------------------------
(* The top-level driver parse().                                           *)

VARIABLES
    tokens,   \* the token stream handed to parse
    index,    \* `index` of the loop
    ast,      \* `ast`, the statements pushed so far
    spans,    \* for each pushed statement, <<start index, next index>>
    stdout,   \* the diagnostics printed so far
    result    \* what parse returned: Running, Ok, Err or Panic

vars == <<tokens, index, ast, spans, stdout, result>>

Running == [tag |-> "Running"]
Ok(a)   == [tag |-> "Ok", ast |-> a]
Err(msg, loc) == [tag |-> "Err", msg |-> msg, loc |-> loc]
Panicked(at)  == [tag |-> "Panic", at |-> at]

ntokens == Len(tokens)

Init ==
    /\ tokens \in Inputs
    /\ index = 0
    /\ ast = <<>>
    /\ spans = <<>>
    /\ stdout = <<>>
    /\ result = Running

\* Variant: the loop resumes one token past the end of the statement.
ParseStep_skips_token ==
    /\ result = Running
    /\ index < ntokens
    /\ LET res == parse_statement(tokens, index)
       IN  /\ res.tag = "Some"
           /\ index' = res.next + 1
           /\ ast' = Append(ast, res.node)
           /\ spans' = Append(spans, <<index, res.next>>)
           /\ stdout' = stdout \o res.out
    /\ UNCHANGED <<tokens, result>>

\* One iteration that pushes a statement.
ParseStep ==
    /\ result = Running
    /\ index < ntokens
    /\ LET res == parse_statement(tokens, index)
       IN  /\ res.tag = "Some"
           /\ index' = res.next
           /\ ast' = Append(ast, res.node)
           /\ spans' = Append(spans, <<index, res.next>>)
           /\ stdout' = stdout \o res.out
    /\ UNCHANGED <<tokens, result>>

\* Variant: the error is located at the last token of the stream.
ParseFail_at_last_token ==
    /\ result = Running
    /\ index < ntokens
    /\ LET res == parse_statement(tokens, index)
       IN  /\ res.tag = "None"
           /\ stdout' = stdout \o res.out
    /\ result' = Err(InvalidToken, At(tokens, ntokens - 1).loc)
    /\ UNCHANGED <<tokens, index, ast, spans>>

\* The dispatcher found no match: return Err(tokens[index].loc.debug(..)).
ParseFail ==
    /\ result = Running
    /\ index < ntokens
    /\ LET res == parse_statement(tokens, index)
       IN  /\ res.tag = "None"
           /\ stdout' = stdout \o res.out
    /\ result' = Err(InvalidToken, At(tokens, index).loc)
    /\ UNCHANGED <<tokens, index, ast, spans>>

\* A slice index inside the dispatcher was out of range: parse unwinds.
ParsePanic ==
    /\ result = Running
    /\ index < ntokens
    /\ LET res == parse_statement(tokens, index)
       IN  /\ res.tag = "Panic"
           /\ stdout' = stdout \o res.out
           /\ result' = Panicked(res.at)
    /\ UNCHANGED <<tokens, index, ast, spans>>

\* The loop condition fails: return Ok(ast).
ParseOk ==
    /\ result = Running
    /\ ~(index < ntokens)
    /\ result' = Ok(ast)
    /\ UNCHANGED <<tokens, index, ast, spans, stdout>>

Next == ParseStep \/ ParseFail \/ ParsePanic \/ ParseOk

Spec == Init /\ [][Next]_vars

----------------------------------------------------------------------------
(* Vocabulary of the properties.                                           *)

IsLiteralToken(t) == t.kind \in {"Number", "Identifier"}
IsOperatorToken(t) == t.kind = "Operator"
IsSyntaxToken(t, v) == t.kind = "Syntax" /\ t.value = v

\* Start indices examined: every token, the end of the stream and one past.
Starts == 0..(ntokens + 1)

Finished == result # Running

Printed(msg) == \E k \in 1..Len(stdout) : stdout[k].msg = msg

\* Number of operator tokens held by an expression node.
RECURSIVE OperatorCount(_)
RECURSIVE SumOperatorCount(_)
SumOperatorCount(es) ==
    IF es = <<>> THEN 0 ELSE OperatorCount(Head(es)) + SumOperatorCount(Tail(es))
OperatorCount(e) ==
    IF e.type = "Literal" THEN 0
    ELSE IF e.type = "BinaryOperation"
    THEN 1 + OperatorCount(e.left) + OperatorCount(e.right)
    ELSE SumOperatorCount(e.arguments)

\* Every BinaryOperation node of e has two Literal children.
RECURSIVE OperandsAreLiterals(_)
OperandsAreLiterals(e) ==
    IF e.type = "Literal" THEN TRUE
    ELSE IF e.type = "BinaryOperation"
    THEN e.left.type = "Literal" /\ e.right.type = "Literal"
    ELSE \A k \in 1..Len(e.arguments) : OperandsAreLiterals(e.arguments[k])

\* No BinaryOperation node of e has an operand that holds an operator.
RECURSIVE NoChainedOperator(_)
NoChainedOperator(e) ==
    IF e.type = "Literal" THEN TRUE
    ELSE IF e.type = "BinaryOperation"
    THEN OperatorCount(e.left) = 0 /\ OperatorCount(e.right) = 0
    ELSE \A k \in 1..Len(e.arguments) : NoChainedOperator(e.arguments[k])

\* The token text of an expression under the comma rule of the argument
\* loop: one comma, right after the open paren, iff there is an argument.
RECURSIVE Unparse(_)
RECURSIVE UnparseAll(_)
UnparseAll(es) ==
    IF es = <<>> THEN <<>> ELSE Unparse(Head(es)) \o UnparseAll(Tail(es))
Unparse(e) ==
    IF e.type = "Literal" THEN <<e.token>>
    ELSE IF e.type = "BinaryOperation"
    THEN Unparse(e.left) \o <<e.operator>> \o Unparse(e.right)
    ELSE <<e.name>> \o <<LParen>>
         \o (IF e.arguments = <<>> THEN <<>> ELSE <<Comma>>)
         \o UnparseAll(e.arguments) \o <<RParen>>

\* The tokens i .. j-1, Syntax tokens without their location.
Text(i, j) ==
    [k \in 1..(j - i) |->
        IF At(tokens, i + k - 1).kind = "Syntax"
        THEN Tok("Syntax", At(tokens, i + k - 1).value)
        ELSE At(tokens, i + k - 1)]

\* Token shapes starting at index i.
BinaryShape(i) ==                        \* L1 op L2 ;
    /\ i + 4 <= ntokens
    /\ IsLiteralToken(At(tokens, i))
    /\ IsOperatorToken(At(tokens, i + 1))
    /\ IsLiteralToken(At(tokens, i + 2))
    /\ IsSyntaxToken(At(tokens, i + 3), ";")

ChainShape(i) ==                         \* L1 op1 L2 op2 L3 ;
    /\ i + 6 <= ntokens
    /\ IsLiteralToken(At(tokens, i))
    /\ IsOperatorToken(At(tokens, i + 1))
    /\ IsLiteralToken(At(tokens, i + 2))
    /\ IsOperatorToken(At(tokens, i + 3))
    /\ IsLiteralToken(At(tokens, i + 4))
    /\ IsSyntaxToken(At(tokens, i + 5), ";")

CallOneArgumentShape ==                  \* f ( a ) ;  as the whole input
    /\ ntokens = 5
    /\ At(tokens, 0).kind = "Identifier"
    /\ IsSyntaxToken(At(tokens, 1), "(")
    /\ IsLiteralToken(At(tokens, 2))
    /\ IsSyntaxToken(At(tokens, 3), ")")
    /\ IsSyntaxToken(At(tokens, 4), ";")

CommaFirstShape(i) ==                    \* f ( , a b )
    /\ i + 6 <= ntokens
    /\ IsLiteralToken(At(tokens, i))
    /\ IsSyntaxToken(At(tokens, i + 1), "(")
    /\ IsSyntaxToken(At(tokens, i + 2), ",")
    /\ IsLiteralToken(At(tokens, i + 3))
    /\ IsLiteralToken(At(tokens, i + 4))
    /\ IsSyntaxToken(At(tokens, i + 5), ")")

CommaBetweenShape(i) ==                  \* f ( a , b )
    /\ i + 6 <= ntokens
    /\ IsLiteralToken(At(tokens, i))
    /\ IsSyntaxToken(At(tokens, i + 1), "(")
    /\ IsLiteralToken(At(tokens, i + 2))
    /\ IsSyntaxToken(At(tokens, i + 3), ",")
    /\ IsLiteralToken(At(tokens, i + 4))
    /\ IsSyntaxToken(At(tokens, i + 5), ")")

\* The statement starting at `index` is an expression that ends exactly at
\* the end of the stream.
ExpressionEndsStream ==
    /\ index < ntokens
    /\ parse_expression(tokens, index).tag = "Some"
    /\ parse_expression(tokens, index).next = ntokens

----------------------------------------------------------------------------
(* C1: when the last statement is an expression that ends exactly at the   *)
(* end of the stream (for instance the single token `a`), parse returns an *)
(* Err and the expected-semicolon diagnostic is issued; it neither returns *)
(* Ok nor aborts on tokens[len].                                           *)
C1_MissingTerminatorIsErr ==
    (Finished /\ ExpressionEndsStream)
        => (result.tag = "Err" /\ Printed(ExpectedSemicolon))

(* C2: for `f ( a ) ;` with a Number or Identifier argument parse returns  *)
(* Ok with the single statement Expression(FunctionCall{f, [Literal a]}).  *)
C2_CallOneArgumentIsOk ==
    (Finished /\ CallOneArgumentShape)
        => result = Ok(<<ExpressionStatement(
                           FunctionCallNode(At(tokens, 0),
                                            <<LiteralNode(At(tokens, 2))>>))>>)

(* C3: whenever the dispatcher returns no match at index i < ntokens,      *)
(* parse returns at once Err with the diagnostic located at token i and no *)
(* AST, whatever was parsed before; a stream that starts with an Operator  *)
(* yields Err located at index 0.                                          *)
C3_FailFast ==
    [][ /\ (result = Running /\ index < ntokens
              /\ parse_statement(tokens, index).tag = "None")
            => (/\ result' = Err(InvalidToken, index)
                /\ At(tokens, index).loc = index
                /\ DOMAIN result' = {"tag", "msg", "loc"})
        /\ (result = Running /\ index = 0 /\ ntokens > 0
              /\ IsOperatorToken(At(tokens, 0)))
            => result' = Err(InvalidToken, 0) ]_vars

C3_Witness ==
    /\ result.tag = "Err"
    /\ Len(ast) >= 1
    /\ result.loc = index
    /\ index > 0

(* C4: whenever parse_expression or parse_expression_statement returns     *)
(* Some((node, next)) for a start index, start < next <= ntokens; so the   *)
(* loop index of parse strictly increases on every iteration that pushes a *)
(* statement.                                                              *)
C4_StateBounds ==
    /\ \A i \in Starts :
          LET expr == parse_expression(tokens, i)
              stmt == parse_expression_statement(tokens, i)
          IN  /\ expr.tag = "Some" => (i < expr.next /\ expr.next <= ntokens)
              /\ stmt.tag = "Some" => (i < stmt.next /\ stmt.next <= ntokens)
    /\ \A k \in 1..Len(spans) : spans[k][1] < spans[k][2] /\ spans[k][2] <= ntokens

C4_MonotonicConsumption ==
    /\ []C4_StateBounds
    /\ [][Len(ast') > Len(ast) => (index' > index /\ index' <= ntokens)]_vars

C4_Witness ==
    /\ Len(ast) >= 2
    /\ \E k \in 1..Len(ast) : ast[k].expr.type = "FunctionCall"
    /\ \E k \in 1..Len(ast) : ast[k].expr.type = "BinaryOperation"

(* C5: parse_expression returns Some or None for every token stream and    *)
(* start index and never reads a token index >= ntokens; when the stream   *)
(* ends right after a binary operator, or inside an argument list before   *)
(* a `)`, it returns None.                                                 *)
C5_ExpressionNeverAborts ==
    \A i \in Starts :
        /\ parse_expression(tokens, i).tag \in {"Some", "None"}
        /\ (/\ i + 2 = ntokens
            /\ IsLiteralToken(At(tokens, i))
            /\ IsOperatorToken(At(tokens, i + 1)))
             => parse_expression(tokens, i).tag = "None"
        /\ (/\ i + 2 = ntokens
            /\ IsLiteralToken(At(tokens, i))
            /\ IsSyntaxToken(At(tokens, i + 1), "("))
             => parse_expression(tokens, i).tag = "None"

(* C6: for L1 op L2 `;` at start index i the expression-statement form     *)
(* returns Expression(BinaryOperation{op, Literal(L1), Literal(L2)}) with  *)
(* next index i + 4; when these four tokens are the whole input, parse     *)
(* returns Ok with exactly that statement.                                 *)
BinaryStatementAt(i) ==
    ExpressionStatement(
        BinaryOperationNode(At(tokens, i + 1), LiteralNode(At(tokens, i)),
                            LiteralNode(At(tokens, i + 2))))

C6_BinaryOperationShape ==
    /\ \A i \in Starts :
          BinaryShape(i) =>
             parse_expression_statement(tokens, i)
                = Some(BinaryStatementAt(i), i + 4, <<>>)
    /\ (Finished /\ ntokens = 4 /\ BinaryShape(0))
          => result = Ok(<<BinaryStatementAt(0)>>)

C6_Witness ==
    /\ result.tag = "Ok"
    /\ ntokens = 4
    /\ BinaryShape(0)
    /\ At(tokens, 0) # At(tokens, 2)

(* C7: in the argument loop a `,` is required and consumed exactly when no *)
(* argument has been collected and the current token is not `)`, never     *)
(* before a later argument: a call that parses consumed exactly the text   *)
(* name ( [, arg arg ...] ); its argument list is empty only when `)`      *)
(* follows `(` at once; `f ( , a b )` gives the arguments [a, b]; and      *)
(* `f ( a , b )` is no match.                                              *)
C7_CommaRule ==
    \A i \in Starts :
       LET res == parse_expression(tokens, i)
       IN  /\ res.tag = "Some"
                => /\ Text(i, res.next) = Unparse(res.node)
                   /\ (res.node.type = "FunctionCall" /\ res.node.arguments = <<>>)
                        => IsSyntaxToken(At(tokens, i + 2), ")")
           /\ CommaFirstShape(i)
                => res = Some(FunctionCallNode(At(tokens, i),
                                  <<LiteralNode(At(tokens, i + 3)),
                                    LiteralNode(At(tokens, i + 4))>>),
                              i + 6, <<>>)
           /\ CommaBetweenShape(i)
                => res = None(<<Diag(ExpectedComma, i + 2)>>)

C7_Witness ==
    /\ result.tag = "Ok"
    /\ CommaFirstShape(0)
    /\ Len(ast) = 1
    /\ Len(ast[1].expr.arguments) = 2

\* The behaviour on a chain L1 op1 L2 op2 L3 ; that starts at index i.
ChainRejectedAt(i) ==
    /\ parse_expression(tokens, i)
          = Some(BinaryOperationNode(At(tokens, i + 1), LiteralNode(At(tokens, i)),
                                     LiteralNode(At(tokens, i + 2))),
                 i + 3, <<>>)
    /\ parse_expression_statement(tokens, i)
          = None(<<Diag(ExpectedSemicolon, i + 3)>>)

(* C8 as stated: a chain L1 op1 L2 op2 L3 `;` parses as the single         *)
(* BinaryOperation(L1 op1 L2) with next index start + 3, the statement     *)
(* form finds op2 instead of `;` and returns no match, parse returns Err;  *)
(* and no AST ever holds an expression with more than one operator.        *)
C8_AtMostOneOperator ==
    /\ \A i \in Starts : ChainShape(i) => ChainRejectedAt(i)
    /\ (Finished /\ ChainShape(index)) => result = Err(InvalidToken, index)
    /\ \A k \in 1..Len(ast) : OperatorCount(ast[k].expr) <= 1

(* C8 amended: the chain is rejected as stated, and no AST ever holds a    *)
(* BinaryOperation with an operand that holds an operator; several         *)
(* operators occur in one expression only as separate arguments of a call. *)
C8_ChainRejected ==
    /\ \A i \in Starts : ChainShape(i) => ChainRejectedAt(i)
    /\ (Finished /\ ChainShape(index)) => result = Err(InvalidToken, index)
    /\ \A k \in 1..Len(ast) : NoChainedOperator(ast[k].expr)

C8_Witness ==
    /\ result.tag = "Err"
    /\ ChainShape(index)
    /\ Printed(ExpectedSemicolon)

(* C9: whenever parse returns Ok(ast), the loop index equals the number of *)
(* tokens, the statements are in increasing order of start index, and      *)
(* their token ranges are contiguous, disjoint and cover the whole input;  *)
(* the empty stream yields Ok with an empty AST.                           *)
C9_CompleteCoverage ==
    /\ result.tag = "Ok" =>
          /\ index = ntokens
          /\ result.ast = ast
          /\ Len(spans) = Len(ast)
          /\ \A k \in 1..Len(spans) :
                /\ spans[k][1] < spans[k][2]
                /\ spans[k][1] = (IF k = 1 THEN 0 ELSE spans[k - 1][2])
                /\ parse_expression_statement(tokens, spans[k][1])
                      = Some(ast[k], spans[k][2], <<>>)
          /\ (IF spans = <<>> THEN 0 ELSE spans[Len(spans)][2]) = ntokens
    /\ (Finished /\ tokens = <<>>) => result = Ok(<<>>)

C9_Witness ==
    /\ result.tag = "Ok"
    /\ Len(result.ast) >= 2
    /\ ntokens >= 6

(* C10: in every expression parse_expression produces, each                *)
(* BinaryOperation, also inside call arguments, has two Literal children;  *)
(* a call is returned as soon as its `)` is consumed, so a call followed   *)
(* by an operator is not combined and the expression statement fails at    *)
(* the terminator check.                                                   *)
C10_OperandsAreLiterals ==
    /\ \A i \in Starts :
          LET res == parse_expression(tokens, i)
          IN  res.tag = "Some" =>
                /\ OperandsAreLiterals(res.node)
                /\ (/\ expect_syntax(tokens, i + 1, "(")
                    /\ res.next < ntokens
                    /\ IsOperatorToken(At(tokens, res.next)))
                     => /\ res.node.type = "FunctionCall"
                        /\ IsSyntaxToken(At(tokens, res.next - 1), ")")
                        /\ parse_expression_statement(tokens, i)
                              = None(<<Diag(ExpectedSemicolon, res.next)>>)
    /\ \A k \in 1..Len(ast) : OperandsAreLiterals(ast[k].expr)

C10_Witness ==
    /\ result.tag = "Err"
    /\ index < ntokens
    /\ parse_expression(tokens, index).tag = "Some"
    /\ parse_expression(tokens, index).node.type = "FunctionCall"
    /\ parse_expression(tokens, index).next < ntokens
    /\ IsOperatorToken(At(tokens, parse_expression(tokens, index).next))

====
